---- MODULE Spec2Model ----
(***************************************************************************)
(* DineLine phone ordering agent: the LangGraph order graph of main.py and *)
(* agent.py (call_model / router / execute_tools over a MemorySaver        *)
(* checkpointer), the two relay loops of main.py's websocket_endpoint      *)
(* (listen_to_twilio, listen_to_deepgram) and the terminal driver of       *)
(* test_bot.py (run_cli).                                                  *)
(*                                                                         *)
(* Text is a sequence of one-character strings, so that lower-casing and   *)
(* substring search are computed.  Prices are whole numbers: every price   *)
(* of MENU_DB is a float with an integral value.                           *)
(***************************************************************************)
EXTENDS Integers, Sequences, FiniteSets, TLC

\* ------------------------------------------------------------------------
\* Bounds of the model
\* ------------------------------------------------------------------------
\* reasoning-engine replies in a run of run_cli
CliModelCalls == 3
\* tool calls the reasoning engine requests in a run of run_cli
CliToolCalls == 2
\* lines the user types in a run of run_cli
CliTurns == 2
\* longest search query of the search specification
MaxQueryLen == 3
\* reasoning-engine replies and requested tool calls, one call running
RelayModelCalls == 4
RelayToolCalls == 2
\* two calls running: replies and requested tool calls of both calls together,
\* tool calls in one reply, audio chunks and Deepgram messages of both calls
PairModelCalls == 4
PairToolCalls == 2
PairCallsPerReply == 1
PairMedia == 1
PairDgEvents == 1
\* one call running: audio chunks Twilio delivers, messages Deepgram delivers
MaxMedia == 1
MaxDgEvents == 2

\* ------------------------------------------------------------------------
\* Text
\* ------------------------------------------------------------------------
\* str.lower() on one character
LowerChar(ch) ==
    CASE ch = "A" -> "a" [] ch = "B" -> "b" [] ch = "C" -> "c" [] ch = "D" -> "d"
      [] ch = "E" -> "e" [] ch = "F" -> "f" [] ch = "G" -> "g" [] ch = "H" -> "h"
      [] ch = "I" -> "i" [] ch = "J" -> "j" [] ch = "K" -> "k" [] ch = "L" -> "l"
      [] ch = "M" -> "m" [] ch = "N" -> "n" [] ch = "O" -> "o" [] ch = "P" -> "p"
      [] ch = "Q" -> "q" [] ch = "R" -> "r" [] ch = "S" -> "s" [] ch = "T" -> "t"
      [] ch = "U" -> "u" [] ch = "V" -> "v" [] ch = "W" -> "w" [] ch = "X" -> "x"
      [] ch = "Y" -> "y" [] ch = "Z" -> "z" [] OTHER -> ch

\* str.lower()
Lower(s) == [i \in 1..Len(s) |-> LowerChar(s[i])]

\* Python's `q in s` on two strings
IsSubstring(q, s) ==
    \E k \in 0..(Len(s) - Len(q)) : \A i \in 1..Len(q) : s[k + i] = q[i]

\* sep.join(parts)
RECURSIVE Join(_, _)
Join(parts, sep) ==
    IF parts = <<>> THEN <<>>
    ELSE IF Len(parts) = 1 THEN parts[1]
    ELSE parts[1] \o sep \o Join(Tail(parts), sep)

\* ------------------------------------------------------------------------
\* Catalogs
\* ------------------------------------------------------------------------
\* main.py's menu, in the insertion order of the dict
MENU_DB ==
    << [id |-> "pepperoni_small", price |-> 10,
        name |-> <<"S","m","a","l","l"," ","P","e","p","p","e","r","o","n","i"," ","P","i","z","z","a">>,
        tags |-> << <<"p","i","z","z","a">>, <<"m","e","a","t">>,
                    <<"p","e","p","p","e","r","o","n","i">>, <<"s","m","a","l","l">> >>],
       [id |-> "pepperoni_large", price |-> 12,
        name |-> <<"L","a","r","g","e"," ","P","e","p","p","e","r","o","n","i"," ","P","i","z","z","a">>,
        tags |-> << <<"p","i","z","z","a">>, <<"m","e","a","t">>,
                    <<"p","e","p","p","e","r","o","n","i">>, <<"l","a","r","g","e">> >>],
       [id |-> "cheese_small", price |-> 8,
        name |-> <<"S","m","a","l","l"," ","C","h","e","e","s","e"," ","P","i","z","z","a">>,
        tags |-> << <<"p","i","z","z","a">>, <<"c","h","e","e","s","e">>,
                    <<"s","m","a","l","l">>, <<"v","e","g","e","t","a","r","i","a","n">> >>],
       [id |-> "cheese_large", price |-> 10,
        name |-> <<"L","a","r","g","e"," ","C","h","e","e","s","e"," ","P","i","z","z","a">>,
        tags |-> << <<"p","i","z","z","a">>, <<"c","h","e","e","s","e">>,
                    <<"l","a","r","g","e">>, <<"v","e","g","e","t","a","r","i","a","n">> >>],
       [id |-> "coke", price |-> 2,
        name |-> <<"C","o","k","e">>,
        tags |-> << <<"d","r","i","n","k">>, <<"s","o","d","a">>, <<"c","o","k","e">> >>] >>

\* agent.py's menu_items, as loaded from menu.json: a sample with the fields
\* execute_tools reads (name, description, tags, allergens, variants)
MENU_ITEMS ==
    << [name |-> <<"C","h","e","e","s","e"," ","P","i","z","z","a">>,
        description |-> <<"C","l","a","s","s","i","c"," ","c","h","e","e","s","e"," ","p","i","e">>,
        tags |-> << <<"p","i","z","z","a">>, <<"v","e","g","e","t","a","r","i","a","n">> >>,
        allergens |-> << <<"d","a","i","r","y">>, <<"g","l","u","t","e","n">> >>,
        variants |-> << [variant_id |-> "cheese_small", name |-> <<"S","m","a","l","l">>, price |-> 8],
                        [variant_id |-> "cheese_large", name |-> <<"L","a","r","g","e">>, price |-> 10] >>],
       [name |-> <<"C","o","k","e">>,
        description |-> <<"C","o","l","d"," ","s","o","d","a">>,
        tags |-> << <<"d","r","i","n","k">> >>,
        allergens |-> <<>>,
        variants |-> << [variant_id |-> "coke", name |-> <<"C","a","n">>, price |-> 2] >>] >>

\* the two modules that define app_graph
Impls == {"main", "agent"}

\* number of catalog items of a module
CatalogSize(im) == IF im = "main" THEN Len(MENU_DB) ELSE Len(MENU_ITEMS)

\* ------------------------------------------------------------------------
\* Messages and tool calls
\* ------------------------------------------------------------------------
NoId == <<0, 0>>

\* the text of a message; the formatted text of a tool result is kept as the
\* values it is formatted from
Content(kind, text, item, qty, total, items, query) ==
    [kind |-> kind, text |-> text, item |-> item, qty |-> qty, total |-> total,
     items |-> items, query |-> query]

Text(t) == Content("text", t, "", 0, 0, <<>>, <<>>)

Message(type, content, tool_calls, tool_call_id) ==
    [type |-> type, content |-> content, tool_calls |-> tool_calls,
     tool_call_id |-> tool_call_id]

SystemMessage(t) == Message("system", Text(t), <<>>, NoId)
HumanMessage(t) == Message("human", Text(t), <<>>, NoId)
AssistantMessage(t) == Message("ai", Text(t), <<>>, NoId)
AIMessage(t, tool_calls) == Message("ai", Text(t), tool_calls, NoId)
ToolMessage(content, tool_call_id) == Message("tool", content, <<>>, tool_call_id)

\* a tool call of a reply: tool_call["name"], tool_call["id"], tool_call["args"]
ToolCall(name, id, query, item, quantity) ==
    [name |-> name, id |-> id, query |-> query, item |-> item, quantity |-> quantity]

\* ------------------------------------------------------------------------
\* execute_tools
\* ------------------------------------------------------------------------
\* a handoff branch that flips the flag instead of setting it
HandoffBranchToggle(acc, tool_call) ==
    [acc EXCEPT !.requires_handoff = ~@,
                !.tool_messages = Append(@,
                    ToolMessage(Content("handoff", <<>>, "", 0, 0, <<>>, <<>>), tool_call.id))]

\* request_human_handoff branch
HandoffBranch(acc, tool_call) ==
    [acc EXCEPT !.requires_handoff = TRUE,
                !.tool_messages = Append(@,
                    ToolMessage(Content("handoff", <<>>, "", 0, 0, <<>>, <<>>), tool_call.id))]

\* main.py: query in d["name"].lower() or any(query in t for t in d["tags"])
MatchesMain(query, d) ==
    \/ IsSubstring(query, Lower(d.name))
    \/ \E i \in 1..Len(d.tags) : IsSubstring(query, d.tags[i])

\* agent.py: the lower-cased f-string of name, description, tags and allergens
searchable_text(item) ==
    Lower(item.name \o <<" ">> \o item.description \o <<" ">>
          \o Join(item.tags, <<" ">>) \o <<" ">> \o Join(item.allergens, <<" ">>))

MatchesAgent(query, item) == IsSubstring(query, searchable_text(item))

\* whether catalog item i of module im matches the lower-cased query
ItemMatches(im, query, i) ==
    IF im = "main" THEN MatchesMain(query, MENU_DB[i])
    ELSE MatchesAgent(query, MENU_ITEMS[i])

\* the list `results`, as the catalog positions of the items it describes
RECURSIVE ResultsFrom(_, _, _)
ResultsFrom(im, query, i) ==
    IF i > CatalogSize(im) THEN <<>>
    ELSE (IF ItemMatches(im, query, i) THEN <<i>> ELSE <<>>)
         \o ResultsFrom(im, query, i + 1)

\* the fixed parts of the two reply texts
AvailableItems == <<"S","y","s","t","e","m",":"," ","A","v","a","i","l","a","b","l","e"," ","i","t","e","m","s",":">>
NoItemsFound == <<"S","y","s","t","e","m",":"," ","N","o"," ","i","t","e","m","s"," ","f","o","u","n","d"," ","m","a","t","c","h","i","n","g"," ","'">>

\* a search_menu reply that compares the query as the caller wrote it
SearchReplyAsWritten(im, rawQuery) ==
    LET query == rawQuery
        results == ResultsFrom(im, query, 1)
    IN  IF results # <<>>
        THEN Content("available", AvailableItems, "", 0, 0, results, <<>>)
        ELSE Content("none", NoItemsFound \o query \o <<"'", ".">>, "", 0, 0, <<>>, query)

\* the reply text of the search_menu branch: the header and one line per
\* result (kept as the result's catalog position), or the no-items text
SearchReply(im, rawQuery) ==
    LET query == Lower(rawQuery)
        results == ResultsFrom(im, query, 1)
    IN  IF results # <<>>
        THEN Content("available", AvailableItems, "", 0, 0, results, <<>>)
        ELSE Content("none", NoItemsFound \o query \o <<"'", ".">>, "", 0, 0, <<>>, query)

\* search_menu branch
SearchBranch(im, acc, tool_call) ==
    [acc EXCEPT !.tool_messages =
        Append(@, ToolMessage(SearchReply(im, tool_call.query), tool_call.id))]

NotFound == [found |-> FALSE]

\* main.py: MENU_DB.get(item_id)
LookupMain(item_id) ==
    LET hits == {i \in 1..Len(MENU_DB) : MENU_DB[i].id = item_id}
    IN  IF hits = {} THEN NotFound
        ELSE LET i == CHOOSE h \in hits : TRUE
             IN  [found |-> TRUE, price |-> MENU_DB[i].price, name |-> <<>>]

\* agent.py: the nested loops over MENU_ITEMS and item["variants"], first hit
LookupAgent(variant_id) ==
    LET hits == {h \in (1..Len(MENU_ITEMS)) \X (1..2) :
                    /\ h[2] <= Len(MENU_ITEMS[h[1]].variants)
                    /\ MENU_ITEMS[h[1]].variants[h[2]].variant_id = variant_id}
    IN  IF hits = {} THEN NotFound
        ELSE LET h == CHOOSE x \in hits : \A y \in hits :
                          x[1] < y[1] \/ (x[1] = y[1] /\ x[2] <= y[2])
                 var == MENU_ITEMS[h[1]].variants[h[2]]
             IN  [found |-> TRUE, price |-> var.price,
                  name |-> MENU_ITEMS[h[1]].name \o <<" ","-"," ">> \o var.name]

\* a lookup that falls back to the first catalog entry for an unknown id
LookupWithDefault(im, id) ==
    LET hit == IF im = "main" THEN LookupMain(id) ELSE LookupAgent(id)
    IN  IF hit.found THEN hit
        ELSE IF im = "main" THEN LookupMain(MENU_DB[1].id)
        ELSE LookupAgent(MENU_ITEMS[1].variants[1].variant_id)

\* the catalog lookup of the add_to_cart branch
Lookup(im, id) ==
    IF im = "main" THEN LookupMain(id) ELSE LookupAgent(id)

\* a cart line that stores the line total as the unit price
CartLineOfTotals(im, id, qty, found) ==
    LET line_total == found.price * qty
    IN  IF im = "main"
        THEN [item_id |-> id, quantity |-> qty, unit_price |-> line_total,
              line_total |-> line_total]
        ELSE [variant_id |-> id, name |-> found.name, quantity |-> qty,
              unit_price |-> line_total, line_total |-> line_total]

\* the cart line appended for a found item
CartLine(im, id, qty, found) ==
    LET line_total == found.price * qty
    IN  IF im = "main"
        THEN [item_id |-> id, quantity |-> qty, unit_price |-> found.price,
              line_total |-> line_total]
        ELSE [variant_id |-> id, name |-> found.name, quantity |-> qty,
              unit_price |-> found.price, line_total |-> line_total]

\* an add_to_cart branch that assigns the total where the code adds to it
AddBranchAssign(im, acc, tool_call) ==
    LET id == tool_call.item
        qty == tool_call.quantity
        found == Lookup(im, id)
    IN  IF ~found.found
        THEN [acc EXCEPT !.tool_messages = Append(@,
                ToolMessage(Content("error", <<>>, id, 0, 0, <<>>, <<>>), tool_call.id))]
        ELSE LET line == CartLine(im, id, qty, found)
                 order_total == line.line_total
             IN  [acc EXCEPT !.cart = Append(@, line),
                             !.order_total = order_total,
                             !.tool_messages = Append(@,
                                ToolMessage(Content("added", <<>>, id, qty, order_total, <<>>, <<>>),
                                            tool_call.id))]

\* add_to_cart branch
AddBranch(im, acc, tool_call) ==
    LET id == tool_call.item
        qty == tool_call.quantity
        found == Lookup(im, id)
    IN  IF ~found.found
        THEN [acc EXCEPT !.tool_messages = Append(@,
                ToolMessage(Content("error", <<>>, id, 0, 0, <<>>, <<>>), tool_call.id))]
        ELSE LET line == CartLine(im, id, qty, found)
                 order_total == acc.order_total + line.line_total
             IN  [acc EXCEPT !.cart = Append(@, line),
                             !.order_total = order_total,
                             !.tool_messages = Append(@,
                                ToolMessage(Content("added", <<>>, id, qty, order_total, <<>>, <<>>),
                                            tool_call.id))]

\* one pass of the loop over last_message.tool_calls
ToolCallStep(im, acc, tool_call) ==
    IF tool_call.name = "request_human_handoff" THEN HandoffBranch(acc, tool_call)
    ELSE IF tool_call.name = "search_menu" THEN SearchBranch(im, acc, tool_call)
    ELSE IF tool_call.name = "add_to_cart" THEN AddBranch(im, acc, tool_call)
    ELSE acc

\* a loop that runs the calls of a reply from the last to the first
RECURSIVE ToolCallLoopReversed(_, _, _)
ToolCallLoopReversed(im, acc, tool_calls) ==
    IF tool_calls = <<>> THEN acc
    ELSE ToolCallStep(im, ToolCallLoopReversed(im, acc, Tail(tool_calls)),
                      Head(tool_calls))

RECURSIVE ToolCallLoop(_, _, _)
ToolCallLoop(im, acc, tool_calls) ==
    IF tool_calls = <<>> THEN acc
    ELSE ToolCallLoop(im, ToolCallStep(im, acc, Head(tool_calls)), Tail(tool_calls))

\* the node execute_tools with its update applied to the state: messages go
\* through add_messages (appended), the other keys are overwritten
execute_tools(im, state) ==
    LET last_message == state.messages[Len(state.messages)]
        acc == ToolCallLoop(im,
                   [cart |-> state.cart, order_total |-> state.order_total,
                    requires_handoff |-> state.requires_handoff,
                    tool_messages |-> <<>>],
                   last_message.tool_calls)
    IN  [messages |-> state.messages \o acc.tool_messages,
         cart |-> acc.cart, order_total |-> acc.order_total,
         requires_handoff |-> acc.requires_handoff]

\* the node call_model with its update applied: the reply is appended
call_model(state, response) ==
    [state EXCEPT !.messages = Append(@, response)]

\* a router that ends the turn after every reply
router_to_end(state) == FALSE

\* router: TRUE for "execute_tools", FALSE for END
router(state) == state.messages[Len(state.messages)].tool_calls # <<>>

\* ------------------------------------------------------------------------
\* State
\* ------------------------------------------------------------------------
VARIABLES
    impl,           \* the module whose app_graph runs: "main" or "agent"
    threads,        \* MemorySaver: thread_id -> the AgentState last checkpointed
    pc,             \* runner -> where its loop stands
    node,           \* runner -> the graph node its invoke stands at
    is_first_turn,  \* run_cli
    before,         \* runner -> cart, total and flag of the checkpoint its
                    \* invoke under way, or its last one, started from
    callers,        \* the connections that Twilio opens in this run
    handler,        \* connection -> stage of websocket_endpoint
    deepgram_ws,    \* connection -> state of the Deepgram connection
    twilio,         \* connection -> last event of the Twilio stream read
    config,         \* connection -> thread_id of the closure's config, or None
    audio,          \* connection -> audio chunks forwarded to Deepgram
    heard,          \* connection -> Deepgram messages read
    result,         \* connection -> the Deepgram message read last
    events,         \* connection -> what listen_to_deepgram took from the turn
    synth,          \* connection -> texts given to generate_tts
    sent,           \* connection -> media written to the Twilio socket
    transfers       \* connection -> calls of twilio_client.calls(sid).update

graphVars == <<impl, threads>>
runVars == <<pc, node>>
cliVars == <<is_first_turn, before>>
relayVars == <<callers, handler, deepgram_ws, twilio, config, audio, heard, result,
               events, synth, sent, transfers>>
vars == <<impl, threads, pc, node, is_first_turn, before, callers, handler, deepgram_ws,
          twilio, config, audio, heard, result, events, synth, sent, transfers>>

Conns == {1, 2}
None == "None"
call_sid(c) == IF c = 1 THEN "CA1" ELSE "CA2"
session_id == "cli"
ThreadIds == {session_id} \cup {call_sid(c) : c \in Conns}

\* the runners of app_graph: the two loops of each connection, and run_cli
Tw(c) == <<"twilio", c>>
Dg(c) == <<"deepgram", c>>
Cli == <<"cli", 0>>
Runners == {Cli} \cup {Tw(c) : c \in Conns} \cup {Dg(c) : c \in Conns}

\* the thread_id of the config a runner passes to app_graph
thread_id(r) == IF r = Cli THEN session_id ELSE config[r[2]]

\* a thread no checkpoint exists for: state.get() yields these defaults
NoState == [messages |-> <<>>, cart |-> <<>>, order_total |-> 0,
            requires_handoff |-> FALSE]

\* an input writer that overwrites every key on every invoke
WriteInputResets(state, messages, reset) ==
    [messages |-> state.messages \o messages, cart |-> <<>>,
     order_total |-> 0, requires_handoff |-> FALSE]

\* the input of an invoke written to the channels: messages through
\* add_messages, every other key given is overwritten
WriteInput(state, messages, reset) ==
    IF reset
    THEN [messages |-> state.messages \o messages, cart |-> <<>>,
          order_total |-> 0, requires_handoff |-> FALSE]
    ELSE [state EXCEPT !.messages = @ \o messages]

\* the keys of a checkpoint other than messages
OrderOf(state) ==
    [cart |-> state.cart, order_total |-> state.order_total,
     requires_handoff |-> state.requires_handoff]

SYSTEM_PROMPT == <<"D","i","n","e","L","i","n","e">>
greeting == <<"W","e","l","c","o","m","e">>

\* ------------------------------------------------------------------------
\* The reasoning engine: llm_with_tools.invoke, an oracle
\* ------------------------------------------------------------------------
\* user messages of a thread
HumanMessages(state) ==
    Cardinality({i \in 1..Len(state.messages) : state.messages[i].type = "human"})

\* replies of the engine in a thread (the injected greeting is not one)
ModelReplies(state) ==
    Cardinality({i \in 1..Len(state.messages) :
                    /\ state.messages[i].type = "ai"
                    /\ state.messages[i] # AssistantMessage(greeting)})

RECURSIVE ToolCallsRequested(_)
ToolCallsRequested(messages) ==
    IF messages = <<>> THEN 0
    ELSE Len(Head(messages).tool_calls) + ToolCallsRequested(Tail(messages))

\* the bounds are on the whole run: run_cli, one call, or two calls
ModelCallBound ==
    IF callers = {} THEN CliModelCalls
    ELSE IF Cardinality(callers) = 1 THEN RelayModelCalls ELSE PairModelCalls

ToolCallBound ==
    IF callers = {} THEN CliToolCalls
    ELSE IF Cardinality(callers) = 1 THEN RelayToolCalls ELSE PairToolCalls

MediaBound == IF Cardinality(callers) = 1 THEN MaxMedia ELSE PairMedia
DgEventBound == IF Cardinality(callers) = 1 THEN MaxDgEvents ELSE PairDgEvents

RECURSIVE SumOver(_, _)
SumOver(f, S) ==
    IF S = {} THEN 0
    ELSE LET x == CHOOSE y \in S : TRUE IN f[x] + SumOver(f, S \ {x})

RepliesSoFar == SumOver([t \in ThreadIds |-> ModelReplies(threads[t])], ThreadIds)
ToolCallsSoFar ==
    SumOver([t \in ThreadIds |-> ToolCallsRequested(threads[t].messages)], ThreadIds)

\* the tool calls one reply may hold
ReplyCallBound ==
    LET left == ToolCallBound - ToolCallsSoFar
    IN  IF Cardinality(callers) = 2 /\ left > PairCallsPerReply
        THEN PairCallsPerReply ELSE left

\* the tool calls the engine chooses among: name and args
CallChoices(r) ==
    IF r = Cli
    THEN {ToolCall("request_human_handoff", NoId, <<>>, "", 0)}
         \cup {ToolCall("search_menu", NoId, q, "", 0) : q \in {<<"S","o","d">>, <<"x">>}}
         \cup {ToolCall("add_to_cart", NoId, <<>>, a[1], a[2]) :
                 a \in {<<"coke", 2>>, <<"cheese_small", 1>>, <<"cheese_small", -1>>,
                        <<"nope", 1>>}}
    ELSE {ToolCall("request_human_handoff", NoId, <<>>, "", 0),
          ToolCall("add_to_cart", NoId, <<>>, "coke", 2),
          ToolCall("add_to_cart", NoId, <<>>, "cheese_small", 1)}

\* the reply texts the engine chooses among: one with two calls under way
ReplyTexts ==
    IF Cardinality(callers) = 2 THEN {<<"o","k">>} ELSE {<<>>, <<"o","k">>}

\* the replies the engine may give after n messages, k more tool calls allowed
Responses(r, n, k) ==
    {AIMessage(t, <<>>) : t \in ReplyTexts}
    \cup UNION {
          {AIMessage(<<>>, [i \in 1..len |-> [calls[i] EXCEPT !.id = <<n + 1, i>>]]) :
              calls \in [1..len -> CallChoices(r)]} : len \in 1..k}

\* ------------------------------------------------------------------------
\* app_graph: START -> agent -> router -> execute_tools -> agent ... -> END
\* ------------------------------------------------------------------------
\* the node agent returns: call_model's reply is appended, then router
AgentReply(r) ==
    /\ node[r] = "agent"
    /\ LET t == thread_id(r)
           state == threads[t]
       IN  /\ RepliesSoFar < ModelCallBound
           /\ \E response \in Responses(r, Len(state.messages), ReplyCallBound) :
                 LET new == call_model(state, response)
                 IN  /\ threads' = [threads EXCEPT ![t] = new]
                     /\ node' = [node EXCEPT ![r] = IF router(new) THEN "tools" ELSE "end"]
    /\ UNCHANGED <<impl, pc, cliVars, relayVars>>

\* llm_with_tools.invoke raises: the invoke of the graph raises
AgentRaise(r) ==
    /\ node[r] = "agent"
    /\ node' = [node EXCEPT ![r] = "raised"]
    /\ UNCHANGED <<graphVars, pc, cliVars, relayVars>>

\* the node execute_tools
ExecuteTools(r) ==
    /\ node[r] = "tools"
    /\ threads' = [threads EXCEPT ![thread_id(r)] = execute_tools(impl, @)]
    /\ node' = [node EXCEPT ![r] = "agent"]
    /\ UNCHANGED <<impl, pc, cliVars, relayVars>>

\* ------------------------------------------------------------------------
\* test_bot.py: run_cli
\* ------------------------------------------------------------------------
UserInputs == {<<"Q","u","i","t">>, <<" ">>, <<"h","i">>}

\* not user_input.strip()
IsBlank(t) == \A i \in 1..Len(t) : t[i] = " "

\* input(), the quit and blank tests, and the start of app_graph.invoke
CliInput ==
    /\ pc[Cli] = "input"
    /\ \E user_input \in UserInputs :
        IF Lower(user_input) \in {<<"q","u","i","t">>, <<"e","x","i","t">>}
        THEN /\ pc' = [pc EXCEPT ![Cli] = "done"]
             /\ UNCHANGED <<graphVars, node, cliVars>>
        ELSE IF IsBlank(user_input)
        THEN UNCHANGED <<graphVars, runVars, cliVars>>
        ELSE /\ HumanMessages(threads[session_id]) < CliTurns
             /\ threads' = [threads EXCEPT ![session_id] =
                   IF is_first_turn
                   THEN WriteInput(@, <<AssistantMessage(greeting),
                                        HumanMessage(user_input)>>, TRUE)
                   ELSE WriteInput(@, <<HumanMessage(user_input)>>, FALSE)]
             /\ is_first_turn' = FALSE
             /\ before' = [before EXCEPT ![Cli] = OrderOf(threads[session_id])]
             /\ pc' = [pc EXCEPT ![Cli] = "invoke"]
             /\ node' = [node EXCEPT ![Cli] = "agent"]
             /\ UNCHANGED impl
    /\ UNCHANGED <<relayVars>>

\* app_graph.invoke returned: the debug print, then the handoff test
CliAfterInvoke ==
    /\ pc[Cli] = "invoke"
    /\ node[Cli] = "end"
    /\ pc' = [pc EXCEPT ![Cli] =
                IF threads[session_id].requires_handoff THEN "done" ELSE "input"]
    /\ node' = [node EXCEPT ![Cli] = "-"]
    /\ UNCHANGED <<graphVars, cliVars, relayVars>>

\* except Exception: the error is printed and the loop goes on
CliError ==
    /\ pc[Cli] = "invoke"
    /\ node[Cli] = "raised"
    /\ pc' = [pc EXCEPT ![Cli] = "input"]
    /\ node' = [node EXCEPT ![Cli] = "-"]
    /\ UNCHANGED <<graphVars, cliVars, relayVars>>

NoResult == [is_final |-> FALSE, speech_final |-> FALSE, transcript |-> <<>>]
NoEvents == [ai_response |-> Text(<<>>), requires_handoff |-> FALSE]

\* run_cli on the app_graph of either module
InitCli ==
    /\ impl \in Impls
    /\ threads = [t \in ThreadIds |-> NoState]
    /\ pc = [r \in Runners |-> IF r = Cli THEN "input" ELSE "off"]
    /\ node = [r \in Runners |-> "-"]
    /\ is_first_turn = TRUE
    /\ before = [r \in Runners |-> OrderOf(NoState)]
    /\ callers = {}
    /\ handler = [c \in Conns |-> "idle"]
    /\ deepgram_ws = [c \in Conns |-> "none"]
    /\ twilio = [c \in Conns |-> "new"]
    /\ config = [c \in Conns |-> None]
    /\ audio = [c \in Conns |-> 0]
    /\ heard = [c \in Conns |-> 0]
    /\ result = [c \in Conns |-> NoResult]
    /\ events = [c \in Conns |-> NoEvents]
    /\ synth = [c \in Conns |-> <<>>]
    /\ sent = [c \in Conns |-> <<>>]
    /\ transfers = [c \in Conns |-> 0]

NextCli ==
    \/ CliInput
    \/ AgentReply(Cli)
    \/ AgentRaise(Cli)
    \/ ExecuteTools(Cli)
    \/ CliAfterInvoke
    \/ CliError

SpecCli == InitCli /\ [][NextCli]_vars

\* ------------------------------------------------------------------------
\* Properties of the tool execution engine (run_cli, either module)
\* ------------------------------------------------------------------------
RECURSIVE SumOfLines(_)
SumOfLines(cart) ==
    IF cart = <<>> THEN 0
    ELSE Head(cart).unit_price * Head(cart).quantity + SumOfLines(Tail(cart))

\* the identifiers and prices of a module's catalog, read off the data
Priced(im) ==
    IF im = "main"
    THEN {<<MENU_DB[i].id, MENU_DB[i].price>> : i \in 1..Len(MENU_DB)}
    ELSE UNION {{<<MENU_ITEMS[i].variants[j].variant_id, MENU_ITEMS[i].variants[j].price>> :
                    j \in 1..Len(MENU_ITEMS[i].variants)} : i \in 1..Len(MENU_ITEMS)}

KnownIds(im) == {p[1] : p \in Priced(im)}
PriceOf(im, id) == (CHOOSE p \in Priced(im) : p[1] = id)[2]

\* ------------------------------------------------------------------------
\* main.py: websocket_endpoint, listen_to_twilio, listen_to_deepgram
\*
\* Twilio's stream is read as Twilio sends it: "connected", "start", then
\* "media" frames, then "stop", one call per connection, each call with its
\* own callSid.  Deepgram transcribes only audio it was sent.  Reading an event
\* and handling it up to the next await is one step.
\* ------------------------------------------------------------------------
\* a loop has returned: by break ("done") or through its except ("failed")
Ended(r) == pc[r] \in {"done", "failed"}

\* an inbound loop that reads Twilio while its start handler is still awaited
InboundReadsEagerly(c) == pc[Tw(c)] \in {"recv", "init", "greet", "tts"}

\* listen_to_twilio stands at `await websocket.receive_text()`
InboundReads(c) == pc[Tw(c)] = "recv"

\* a config that names one thread for every call
SharedConfig(c) == call_sid(1)

\* config = {"configurable": {"thread_id": call_sid}}
CallConfig(c) == call_sid(c)

\* a test that takes is_final alone for the end of the utterance
TriggersOnIsFinal(e) == e.is_final /\ e.transcript # <<>>

\* the test of listen_to_deepgram on a Deepgram message
Triggers(e) == e.is_final /\ e.speech_final /\ e.transcript # <<>>

\* requires_handoff = events.get("requires_handoff", False); if requires_handoff:
HandoffTriggered(ev) == ev.requires_handoff

\* websocket.accept(), websockets.connect(deepgram_url), asyncio.gather
Accept(c) ==
    /\ c \in callers
    /\ handler[c] = "idle"
    /\ handler' = [handler EXCEPT ![c] = "gather"]
    /\ deepgram_ws' = [deepgram_ws EXCEPT ![c] = "open"]
    /\ pc' = [pc EXCEPT ![Tw(c)] = "recv", ![Dg(c)] = "recv"]
    /\ UNCHANGED <<graphVars, node, cliVars, callers, twilio, config, audio, heard,
                   result, events, synth, sent, transfers>>

\* the "connected" event: no branch of listen_to_twilio takes it
TwilioConnected(c) ==
    /\ InboundReads(c)
    /\ twilio[c] = "new"
    /\ twilio' = [twilio EXCEPT ![c] = "connected"]
    /\ UNCHANGED <<graphVars, runVars, cliVars, callers, handler, deepgram_ws, config,
                   audio, heard, result, events, synth, sent, transfers>>

\* the "start" event up to the first await: config is set and the first
\* ainvoke writes its input
TwilioStart(c) ==
    /\ InboundReads(c)
    /\ twilio[c] = "connected"
    /\ twilio' = [twilio EXCEPT ![c] = "streaming"]
    /\ config' = [config EXCEPT ![c] = CallConfig(c)]
    /\ threads' = [threads EXCEPT ![CallConfig(c)] =
                      WriteInput(@, <<SystemMessage(SYSTEM_PROMPT)>>, TRUE)]
    /\ before' = [before EXCEPT ![Tw(c)] = OrderOf(threads[CallConfig(c)])]
    /\ pc' = [pc EXCEPT ![Tw(c)] = "init"]
    /\ node' = [node EXCEPT ![Tw(c)] = "agent"]
    /\ UNCHANGED <<impl, is_first_turn, callers, handler, deepgram_ws, audio, heard, result,
                   events, synth, sent, transfers>>

\* the first ainvoke returned: the second one writes the greeting
TwilioAfterInit(c) ==
    /\ pc[Tw(c)] = "init"
    /\ node[Tw(c)] = "end"
    /\ threads' = [threads EXCEPT ![config[c]] =
                      WriteInput(@, <<AssistantMessage(greeting)>>, FALSE)]
    /\ before' = [before EXCEPT ![Tw(c)] = OrderOf(threads[config[c]])]
    /\ pc' = [pc EXCEPT ![Tw(c)] = "greet"]
    /\ node' = [node EXCEPT ![Tw(c)] = "agent"]
    /\ UNCHANGED <<impl, is_first_turn, relayVars>>

\* the second ainvoke returned: generate_tts(greeting) is awaited
TwilioAfterGreeting(c) ==
    /\ pc[Tw(c)] = "greet"
    /\ node[Tw(c)] = "end"
    /\ synth' = [synth EXCEPT ![c] = Append(@, greeting)]
    /\ pc' = [pc EXCEPT ![Tw(c)] = "tts"]
    /\ node' = [node EXCEPT ![Tw(c)] = "-"]
    /\ UNCHANGED <<graphVars, cliVars, callers, handler, deepgram_ws, twilio, config,
                   audio, heard, result, events, sent, transfers>>

\* generate_tts returned: the greeting is written to the Twilio socket
TwilioTtsReturns(c) ==
    /\ pc[Tw(c)] = "tts"
    /\ sent' = [sent EXCEPT ![c] = Append(@, [by |-> "twilio", text |-> greeting])]
    /\ pc' = [pc EXCEPT ![Tw(c)] = "recv"]
    /\ UNCHANGED <<graphVars, node, cliVars, callers, handler, deepgram_ws, twilio,
                   config, audio, heard, result, events, synth, transfers>>

\* generate_tts raised: except Exception ends listen_to_twilio
TwilioTtsRaises(c) ==
    /\ pc[Tw(c)] = "tts"
    /\ pc' = [pc EXCEPT ![Tw(c)] = "failed"]
    /\ UNCHANGED <<graphVars, node, cliVars, relayVars>>

\* an ainvoke of the start handler raised: except Exception ends the loop
TwilioInvokeRaises(c) ==
    /\ pc[Tw(c)] \in {"init", "greet"}
    /\ node[Tw(c)] = "raised"
    /\ pc' = [pc EXCEPT ![Tw(c)] = "failed"]
    /\ node' = [node EXCEPT ![Tw(c)] = "-"]
    /\ UNCHANGED <<graphVars, cliVars, relayVars>>

\* a "media" event: the audio is sent to Deepgram
TwilioMedia(c) ==
    /\ InboundReads(c)
    /\ twilio[c] = "streaming"
    /\ SumOver(audio, Conns) < MediaBound
    /\ IF deepgram_ws[c] = "open"
       THEN /\ audio' = [audio EXCEPT ![c] = @ + 1]
            /\ pc' = pc
       ELSE /\ pc' = [pc EXCEPT ![Tw(c)] = "failed"]
            /\ audio' = audio
    /\ UNCHANGED <<graphVars, node, cliVars, callers, handler, deepgram_ws, twilio,
                   config, heard, result, events, synth, sent, transfers>>

\* the "stop" event: break
TwilioStop(c) ==
    /\ InboundReads(c)
    /\ twilio[c] = "streaming"
    /\ twilio' = [twilio EXCEPT ![c] = "stopped"]
    /\ pc' = [pc EXCEPT ![Tw(c)] = "done"]
    /\ UNCHANGED <<graphVars, node, cliVars, callers, handler, deepgram_ws, config,
                   audio, heard, result, events, synth, sent, transfers>>

\* the messages Deepgram may deliver
DeepgramMessages ==
    {[is_final |-> TRUE, speech_final |-> TRUE, transcript |-> <<"h","i">>],
     [is_final |-> TRUE, speech_final |-> FALSE, transcript |-> <<"h","i">>],
     [is_final |-> FALSE, speech_final |-> TRUE, transcript |-> <<"h","i">>],
     [is_final |-> TRUE, speech_final |-> TRUE, transcript |-> <<>>]}

\* deepgram_ws.recv() returns a message; a triggering one starts the ainvoke
\* of a turn, which raises when config is still None
DeepgramMessage(c) ==
    /\ pc[Dg(c)] = "recv"
    /\ deepgram_ws[c] = "open"
    /\ SumOver(heard, Conns) < DgEventBound
    /\ \E e \in DeepgramMessages :
          /\ e.transcript # <<>> => audio[c] > 0
          /\ result' = [result EXCEPT ![c] = e]
          /\ heard' = [heard EXCEPT ![c] = @ + 1]
          /\ IF ~Triggers(e)
             THEN UNCHANGED <<threads, pc, node, before>>
             ELSE IF config[c] = None
             THEN /\ pc' = [pc EXCEPT ![Dg(c)] = "failed"]
                  /\ UNCHANGED <<threads, node, before>>
             ELSE /\ threads' = [threads EXCEPT ![config[c]] =
                                    WriteInput(@, <<HumanMessage(e.transcript)>>, FALSE)]
                  /\ before' = [before EXCEPT ![Dg(c)] = OrderOf(threads[config[c]])]
                  /\ pc' = [pc EXCEPT ![Dg(c)] = "invoke"]
                  /\ node' = [node EXCEPT ![Dg(c)] = "agent"]
    /\ UNCHANGED <<impl, is_first_turn, callers, handler, deepgram_ws, twilio, config, audio,
                   events, synth, sent, transfers>>

\* the turn's ainvoke returned: the handoff test, then either the transfer
\* or generate_tts(ai_response) is awaited
DeepgramAfterInvoke(c) ==
    /\ pc[Dg(c)] = "invoke"
    /\ node[Dg(c)] = "end"
    /\ LET state == threads[config[c]]
           ev == [ai_response |-> state.messages[Len(state.messages)].content,
                  requires_handoff |-> state.requires_handoff]
       IN  /\ events' = [events EXCEPT ![c] = ev]
           /\ IF HandoffTriggered(ev)
              THEN /\ transfers' = [transfers EXCEPT ![c] = @ + 1]
                   /\ pc' = [pc EXCEPT ![Dg(c)] = "transfer"]
                   /\ synth' = synth
              ELSE /\ synth' = [synth EXCEPT ![c] = Append(@, ev.ai_response.text)]
                   /\ pc' = [pc EXCEPT ![Dg(c)] = "tts"]
                   /\ transfers' = transfers
    /\ node' = [node EXCEPT ![Dg(c)] = "-"]
    /\ UNCHANGED <<graphVars, cliVars, callers, handler, deepgram_ws, twilio, config,
                   audio, heard, result, sent>>

\* twilio_client.calls(call_sid).update returned: break
DeepgramTransferReturns(c) ==
    /\ pc[Dg(c)] = "transfer"
    /\ pc' = [pc EXCEPT ![Dg(c)] = "done"]
    /\ UNCHANGED <<graphVars, node, cliVars, relayVars>>

\* the update raised: except Exception ends listen_to_deepgram
DeepgramTransferRaises(c) ==
    /\ pc[Dg(c)] = "transfer"
    /\ pc' = [pc EXCEPT ![Dg(c)] = "failed"]
    /\ UNCHANGED <<graphVars, node, cliVars, relayVars>>

\* generate_tts returned: the reply is written to the Twilio socket, which
\* raises once Twilio has ended the stream
DeepgramTtsReturns(c) ==
    /\ pc[Dg(c)] = "tts"
    /\ IF twilio[c] # "stopped"
       THEN /\ sent' = [sent EXCEPT ![c] =
                          Append(@, [by |-> "deepgram", text |-> events[c].ai_response.text])]
            /\ pc' = [pc EXCEPT ![Dg(c)] = "recv"]
       ELSE /\ pc' = [pc EXCEPT ![Dg(c)] = "failed"]
            /\ sent' = sent
    /\ UNCHANGED <<graphVars, node, cliVars, callers, handler, deepgram_ws, twilio,
                   config, audio, heard, result, events, synth, transfers>>

\* generate_tts raised: except Exception ends listen_to_deepgram
DeepgramTtsRaises(c) ==
    /\ pc[Dg(c)] = "tts"
    /\ pc' = [pc EXCEPT ![Dg(c)] = "failed"]
    /\ UNCHANGED <<graphVars, node, cliVars, relayVars>>

\* the turn's ainvoke raised: except Exception ends listen_to_deepgram
DeepgramInvokeRaises(c) ==
    /\ pc[Dg(c)] = "invoke"
    /\ node[Dg(c)] = "raised"
    /\ pc' = [pc EXCEPT ![Dg(c)] = "failed"]
    /\ node' = [node EXCEPT ![Dg(c)] = "-"]
    /\ UNCHANGED <<graphVars, cliVars, relayVars>>

\* Deepgram closes its side of the connection
DeepgramCloses(c) ==
    /\ deepgram_ws[c] = "open"
    /\ deepgram_ws' = [deepgram_ws EXCEPT ![c] = "dropped"]
    /\ UNCHANGED <<graphVars, runVars, cliVars, callers, handler, twilio, config, audio,
                   heard, result, events, synth, sent, transfers>>

\* deepgram_ws.recv() raises on the closed connection
DeepgramRecvRaises(c) ==
    /\ pc[Dg(c)] = "recv"
    /\ deepgram_ws[c] = "dropped"
    /\ pc' = [pc EXCEPT ![Dg(c)] = "failed"]
    /\ UNCHANGED <<graphVars, node, cliVars, relayVars>>

\* a gather that returns as soon as one of the loops has returned
GatherReturnsOnFirst(c) == Ended(Tw(c)) \/ Ended(Dg(c))

\* asyncio.gather(listen_to_twilio(), listen_to_deepgram()) can return
GatherReturns(c) == Ended(Tw(c)) /\ Ended(Dg(c))

\* asyncio.gather returned: the `async with` block closes deepgram_ws
Finish(c) ==
    /\ handler[c] = "gather"
    /\ GatherReturns(c)
    /\ handler' = [handler EXCEPT ![c] = "finished"]
    /\ deepgram_ws' = [deepgram_ws EXCEPT ![c] = "closed"]
    /\ UNCHANGED <<graphVars, runVars, cliVars, callers, twilio, config, audio, heard,
                   result, events, synth, sent, transfers>>

\* the server of main.py with the given calls arriving
InitRelay(calls) ==
    /\ impl = "main"
    /\ threads = [t \in ThreadIds |-> NoState]
    /\ pc = [r \in Runners |-> "off"]
    /\ node = [r \in Runners |-> "-"]
    /\ is_first_turn = TRUE
    /\ before = [r \in Runners |-> OrderOf(NoState)]
    /\ callers = calls
    /\ handler = [c \in Conns |-> "idle"]
    /\ deepgram_ws = [c \in Conns |-> "none"]
    /\ twilio = [c \in Conns |-> "new"]
    /\ config = [c \in Conns |-> None]
    /\ audio = [c \in Conns |-> 0]
    /\ heard = [c \in Conns |-> 0]
    /\ result = [c \in Conns |-> NoResult]
    /\ events = [c \in Conns |-> NoEvents]
    /\ synth = [c \in Conns |-> <<>>]
    /\ sent = [c \in Conns |-> <<>>]
    /\ transfers = [c \in Conns |-> 0]

Init == InitRelay({1})
InitPair == InitRelay({1, 2})

\* what Twilio, Deepgram and the other providers do to a call
Provider(c) ==
    \/ Accept(c)
    \/ TwilioConnected(c)
    \/ TwilioStart(c)
    \/ TwilioMedia(c)
    \/ TwilioStop(c)
    \/ DeepgramMessage(c)
    \/ DeepgramCloses(c)

\* the steps the event loop runs without a new event of Twilio or Deepgram:
\* the continuations after an await of the graph, of generate_tts or of the
\* transfer, and the end of the handler
Continue(c) ==
    \/ AgentReply(Tw(c))
    \/ AgentRaise(Tw(c))
    \/ ExecuteTools(Tw(c))
    \/ AgentReply(Dg(c))
    \/ AgentRaise(Dg(c))
    \/ ExecuteTools(Dg(c))
    \/ TwilioAfterInit(c)
    \/ TwilioAfterGreeting(c)
    \/ TwilioTtsReturns(c)
    \/ TwilioTtsRaises(c)
    \/ TwilioInvokeRaises(c)
    \/ DeepgramAfterInvoke(c)
    \/ DeepgramTransferReturns(c)
    \/ DeepgramTransferRaises(c)
    \/ DeepgramTtsReturns(c)
    \/ DeepgramTtsRaises(c)
    \/ DeepgramInvokeRaises(c)
    \/ DeepgramRecvRaises(c)
    \/ Finish(c)

Next == \E c \in Conns : Provider(c) \/ Continue(c)

Spec == Init /\ [][Next]_vars
SpecPair == InitPair /\ [][Next]_vars

\* every await that can return does return; Twilio and Deepgram are not
\* obliged to send anything
FairSpec == Spec /\ WF_vars(\E c \in Conns : Continue(c))

\* ------------------------------------------------------------------------
\* search_menu on every query of a bounded set
\* ------------------------------------------------------------------------
SearchAlphabet == {"s", "o", "d", "S", "a", " ", "l", "c"}
SearchQueries == UNION {[1..n -> SearchAlphabet] : n \in 0..MaxQueryLen}

\* run_cli after the user's first line, the engine having replied with one
\* search_menu call: the invoke stands at the node execute_tools
InitSearch ==
    /\ impl \in Impls
    /\ \E q \in SearchQueries :
          threads = [t \in ThreadIds |->
              IF t = session_id
              THEN call_model(
                      WriteInput(NoState, <<AssistantMessage(greeting),
                                            HumanMessage(<<"h","i">>)>>, TRUE),
                      AIMessage(<<>>, <<ToolCall("search_menu", <<3, 1>>, q, "", 0)>>))
              ELSE NoState]
    /\ pc = [r \in Runners |-> IF r = Cli THEN "invoke" ELSE "off"]
    /\ node = [r \in Runners |-> IF r = Cli THEN "tools" ELSE "-"]
    /\ is_first_turn = FALSE
    /\ before = [r \in Runners |-> OrderOf(NoState)]
    /\ callers = {}
    /\ handler = [c \in Conns |-> "idle"]
    /\ deepgram_ws = [c \in Conns |-> "none"]
    /\ twilio = [c \in Conns |-> "new"]
    /\ config = [c \in Conns |-> None]
    /\ audio = [c \in Conns |-> 0]
    /\ heard = [c \in Conns |-> 0]
    /\ result = [c \in Conns |-> NoResult]
    /\ events = [c \in Conns |-> NoEvents]
    /\ synth = [c \in Conns |-> <<>>]
    /\ sent = [c \in Conns |-> <<>>]
    /\ transfers = [c \in Conns |-> 0]

NextSearch == ExecuteTools(Cli)

SpecSearch == InitSearch /\ [][NextSearch]_vars

\* a step in which runner r's invoke ran the node execute_tools
ExecStep(r) == node[r] = "tools" /\ node'[r] = "agent"

\* the tool calls that step executes
PendingCalls(r) ==
    LET m == threads[thread_id(r)].messages IN m[Len(m)].tool_calls

IsAdd(call) == call.name = "add_to_cart"
IsHandoff(call) == call.name = "request_human_handoff"

RECURSIVE KnownAddsValue(_, _)
KnownAddsValue(im, calls) ==
    IF calls = <<>> THEN 0
    ELSE (IF IsAdd(Head(calls)) /\ Head(calls).item \in KnownIds(im)
          THEN PriceOf(im, Head(calls).item) * Head(calls).quantity ELSE 0)
         + KnownAddsValue(im, Tail(calls))

KnownAddsCount(im, calls) ==
    Cardinality({i \in 1..Len(calls) : IsAdd(calls[i]) /\ calls[i].item \in KnownIds(im)})

\* C1: in every thread, order_total is the sum over the cart lines of
\* unit_price x quantity, and every line's line_total is its own
\* unit_price x quantity.
C1_TotalIsSumOfLines ==
    \A t \in ThreadIds :
        /\ threads[t].order_total = SumOfLines(threads[t].cart)
        /\ \A i \in 1..Len(threads[t].cart) :
              threads[t].cart[i].line_total =
                  threads[t].cart[i].unit_price * threads[t].cart[i].quantity

\* two lines in the cart of a session that also executed a handoff or a
\* failed add
C1_Witness ==
    /\ Len(threads[session_id].cart) = 2
    /\ threads[session_id].order_total > 0
    /\ threads[session_id].cart[1].unit_price # threads[session_id].cart[2].unit_price

\* C2: an add_to_cart whose identifier is in no catalog entry changes nothing
\* of the order and is answered by an error tool message; the other calls of
\* the reply are executed and answered, and the graph goes on to the agent
\* node: after execute_tools the cart holds one more line per add with a known
\* identifier and none for the others, the total grew by the known adds only,
\* and the handoff flag changed only through a handoff call.
C2_UnknownAddChangesNothing ==
    [][\A r \in Runners : ExecStep(r) =>
          LET t == thread_id(r)
              calls == PendingCalls(r)
              pre == threads[t]
              post == threads'[t]
              n == Len(pre.messages)
          IN  /\ Len(post.messages) = n + Len(calls)
              /\ \A i \in 1..Len(calls) :
                    /\ post.messages[n + i].type = "tool"
                    /\ post.messages[n + i].tool_call_id = calls[i].id
                    /\ (IsAdd(calls[i]) /\ calls[i].item \notin KnownIds(impl))
                          => /\ post.messages[n + i].content.kind = "error"
                             /\ post.messages[n + i].content.item = calls[i].item
              /\ Len(post.cart) = Len(pre.cart) + KnownAddsCount(impl, calls)
              /\ SubSeq(post.cart, 1, Len(pre.cart)) = pre.cart
              /\ post.order_total = pre.order_total + KnownAddsValue(impl, calls)
              /\ post.requires_handoff =
                    (pre.requires_handoff \/ \E i \in 1..Len(calls) : IsHandoff(calls[i]))
      ]_vars

\* a reply of two calls was executed: an add with an unknown identifier,
\* answered by an error, then an add that put a line in the cart
C2_Witness ==
    \E i \in 1..Len(threads[session_id].messages) :
        LET m == threads[session_id].messages
        IN  /\ i + 1 <= Len(m)
            /\ m[i].type = "tool" /\ m[i].content.kind = "error"
            /\ m[i + 1].type = "tool" /\ m[i + 1].content.kind = "added"
            /\ m[i].tool_call_id[1] = m[i + 1].tool_call_id[1]
            /\ Len(threads[session_id].cart) = 1

\* C3: request_human_handoff sets the flag and touches nothing else: after
\* execute_tools ran a reply holding a handoff call the flag is true, a flag
\* that was true stays true, and a reply of handoff calls only (one or
\* several) leaves cart and order_total as they were.
C3_HandoffIdempotent ==
    [][\A r \in Runners : ExecStep(r) =>
          LET t == thread_id(r)
              calls == PendingCalls(r)
              pre == threads[t]
              post == threads'[t]
          IN  /\ (\E i \in 1..Len(calls) : IsHandoff(calls[i])) => post.requires_handoff
              /\ pre.requires_handoff => post.requires_handoff
              /\ (\A i \in 1..Len(calls) : IsHandoff(calls[i]))
                    => /\ post.cart = pre.cart
                       /\ post.order_total = pre.order_total
      ]_vars

\* the handoff was executed in two replies of one session
C3_Witness ==
    LET m == threads[session_id].messages
    IN  /\ threads[session_id].requires_handoff
        /\ \E i, j \in 1..Len(m) :
              /\ m[i].type = "tool" /\ m[i].content.kind = "handoff"
              /\ m[j].type = "tool" /\ m[j].content.kind = "handoff"
              /\ m[i].tool_call_id[1] < m[j].tool_call_id[1]

\* ------------------------------------------------------------------------
\* Properties of search_menu (search specification)
\* ------------------------------------------------------------------------
\* execute_tools has run the search_menu call of the search specification
SearchDone ==
    /\ node[Cli] = "agent"
    /\ Len(threads[session_id].messages) = 4
    /\ threads[session_id].messages[4].type = "tool"

SearchedQuery == threads[session_id].messages[3].tool_calls[1].query
SearchResult == threads[session_id].messages[4].content

\* the catalog positions a reply lists, each once and in catalog order
Lists(content, positions) ==
    /\ content.kind = "available"
    /\ {content.items[k] : k \in 1..Len(content.items)} = positions
    /\ \A k \in 1..(Len(content.items) - 1) : content.items[k] < content.items[k + 1]

\* the query, lower-cased, is in the lower-cased name, a lower-cased tag or a
\* lower-cased allergen of catalog item i
InNameTagOrAllergen(im, q, i) ==
    IF im = "main"
    THEN \/ IsSubstring(Lower(q), Lower(MENU_DB[i].name))
         \/ \E k \in 1..Len(MENU_DB[i].tags) : IsSubstring(Lower(q), Lower(MENU_DB[i].tags[k]))
    ELSE \/ IsSubstring(Lower(q), Lower(MENU_ITEMS[i].name))
         \/ \E k \in 1..Len(MENU_ITEMS[i].tags) :
               IsSubstring(Lower(q), Lower(MENU_ITEMS[i].tags[k]))
         \/ \E k \in 1..Len(MENU_ITEMS[i].allergens) :
               IsSubstring(Lower(q), Lower(MENU_ITEMS[i].allergens[k]))

\* the query, lower-cased, is in the text the module searches: in agent.py the
\* lower-cased name, description, tags and allergens joined by single blanks;
\* in main.py the lower-cased name, or a tag as it is stored
InSearchedText(im, q, i) ==
    IF im = "main"
    THEN \/ IsSubstring(Lower(q), Lower(MENU_DB[i].name))
         \/ \E k \in 1..Len(MENU_DB[i].tags) : IsSubstring(Lower(q), MENU_DB[i].tags[k])
    ELSE IsSubstring(Lower(q),
            Lower(Join(<<MENU_ITEMS[i].name, MENU_ITEMS[i].description,
                         Join(MENU_ITEMS[i].tags, <<" ">>),
                         Join(MENU_ITEMS[i].allergens, <<" ">>)>>, <<" ">>)))

\* C6 as claimed: search_menu lists exactly the items whose name, tags or
\* allergens hold the query as a substring, case-insensitively; with no such
\* item the result is the non-empty no-items text; the graph goes on.
C6_NameTagAllergenOnly ==
    SearchDone =>
        LET claimed == {i \in 1..CatalogSize(impl) :
                           InNameTagOrAllergen(impl, SearchedQuery, i)}
        IN  /\ claimed # {} => Lists(SearchResult, claimed)
            /\ claimed = {} => /\ SearchResult.kind = "none"
                               /\ Len(SearchResult.text) > 0

\* C6 as amended: search_menu lists exactly the items whose searched text
\* holds the lower-cased query (agent.py: name, description, tags and
\* allergens joined by blanks and lower-cased; main.py: the lower-cased name
\* or a stored tag); with no such item the result is the non-empty no-items
\* text naming the lower-cased query; the graph goes on to the agent node
\* with the cart, the total and the handoff flag untouched.
C6_SearchedTextMatches ==
    SearchDone =>
        LET found == {i \in 1..CatalogSize(impl) :
                         InSearchedText(impl, SearchedQuery, i)}
        IN  /\ found # {} => Lists(SearchResult, found)
            /\ found = {} => /\ SearchResult.kind = "none"
                             /\ Len(SearchResult.text) > 0
                             /\ SearchResult.query = Lower(SearchedQuery)
            /\ threads[session_id].cart = <<>>
            /\ threads[session_id].order_total = 0
            /\ ~threads[session_id].requires_handoff

\* agent.py answered the query "Sod" with the one item whose description,
\* and nothing else of it, holds "sod"
C6_Witness ==
    /\ SearchDone
    /\ impl = "agent"
    /\ SearchedQuery = <<"S", "o", "d">>
    /\ SearchResult.kind = "available"
    /\ SearchResult.items = <<2>>

\* ------------------------------------------------------------------------
\* Properties of the relay (one call, two calls)
\* ------------------------------------------------------------------------
\* the loops of a connection
Loops(c) == {Tw(c), Dg(c)}

\* runner r's ainvoke is under way, or has ended and not yet been resumed
InTurn(r) == node[r] # "-"

\* a step in which runner r's ainvoke returns to its loop
TurnReturns(r) == node[r] = "end" /\ node'[r] # "end"

\* the replies of turns written to the Twilio socket
RepliesSent(media) ==
    Cardinality({k \in 1..Len(media) : media[k].by = "deepgram"})

\* C4 as claimed: once a turn of a call ends with the thread's
\* requires_handoff true, the transfer has been invoked exactly once for the
\* call, it is never invoked twice, and while the flag is true no reply of a
\* turn is written to the Twilio socket.
C4_HandoffTransfersOnce ==
    [][\A c \in callers :
          /\ transfers'[c] <= 1
          /\ \A r \in Loops(c) :
                (TurnReturns(r) /\ threads[call_sid(c)].requires_handoff)
                    => transfers'[c] = 1
          /\ threads[call_sid(c)].requires_handoff
                => RepliesSent(sent'[c]) = RepliesSent(sent[c])
      ]_vars

\* the value of the adds with a known identifier among the replies of a
\* history that execute_tools has run
RECURSIVE ExecutedAddsValue(_, _)
ExecutedAddsValue(im, messages) ==
    IF Len(messages) <= 1 THEN 0
    ELSE KnownAddsValue(im, Head(messages).tool_calls)
         + ExecutedAddsValue(im, Tail(messages))

\* C5: with two calls under way, a step changes the thread of a call (its
\* cart, order_total, requires_handoff or messages) only if it is a step of a
\* loop of that call; a run of execute_tools by one call leaves the other
\* call's thread as it was; every loop's config names its own call; and each
\* call's order_total is the value of the adds executed in its own history.
C5_CallsAreIsolated ==
    [][\A c \in Conns :
          /\ config[c] \in {None, call_sid(c)}
          /\ threads[call_sid(c)].order_total =
                ExecutedAddsValue(impl, threads[call_sid(c)].messages)
          /\ threads'[call_sid(c)].order_total =
                ExecutedAddsValue(impl, threads'[call_sid(c)].messages)
          /\ threads'[call_sid(c)] # threads[call_sid(c)]
                => \E r \in Loops(c) : pc'[r] # pc[r] \/ node'[r] # node[r]
          /\ \A r \in Loops(c) : ExecStep(r) =>
                \A d \in Conns \ {c} : threads'[call_sid(d)] = threads[call_sid(d)]
      ]_vars

\* both calls have a line in their carts, and their totals differ
C5_Witness ==
    /\ Len(threads[call_sid(1)].cart) = 1
    /\ Len(threads[call_sid(2)].cart) = 1
    /\ threads[call_sid(1)].order_total = 4
    /\ threads[call_sid(2)].order_total = 8

C8_StopTearsDown ==
    \A c \in Conns :
        (twilio[c] = "stopped")
            ~> (deepgram_ws[c] = "closed" /\ Ended(Tw(c)) /\ Ended(Dg(c)))

\* C9: no two ainvokes on one thread are under way at once; listen_to_twilio
\* is in a turn only inside its "start" handler; listen_to_deepgram is in a
\* turn only for the transcript it read last, after the start handler's turns
\* and with no other turn of its own.
C9_OneTurnAtATime ==
    /\ \A r1, r2 \in Runners :
          (InTurn(r1) /\ InTurn(r2) /\ thread_id(r1) = thread_id(r2)) => r1 = r2
    /\ \A c \in Conns :
          /\ InTurn(Tw(c)) => (pc[Tw(c)] \in {"init", "greet"} /\ twilio[c] = "streaming")
          /\ InTurn(Dg(c)) => /\ pc[Dg(c)] = "invoke"
                              /\ Triggers(result[c])
                              /\ pc[Tw(c)] \notin {"init", "greet"}
                              /\ config[c] = call_sid(c)
          /\ pc[Dg(c)] = "recv" => ~InTurn(Dg(c))

\* a transcript's turn is at execute_tools while listen_to_twilio, its start
\* handler done and the greeting sent, waits for the next event
C9_Witness ==
    /\ node[Dg(1)] = "tools"
    /\ pc[Tw(1)] = "recv"
    /\ Len(sent[1]) = 1
    /\ HumanMessages(threads[call_sid(1)]) = 1

\* C10: listen_to_deepgram starts a turn on a message read iff the message has
\* is_final, speech_final and a non-empty transcript; it then starts one
\* ainvoke whose input is one HumanMessage of that transcript, on its own
\* call's thread; any other message leaves every thread and both loops as
\* they were; and no turn of listen_to_deepgram starts in any other step.
C10_TurnPerFinalTranscript ==
    [][\A c \in Conns :
          /\ heard'[c] = heard[c] + 1 =>
                LET e == result'[c]
                    t == call_sid(c)
                IN  IF e.is_final /\ e.speech_final /\ e.transcript # <<>>
                    THEN /\ config[c] = t
                         /\ pc[Dg(c)] = "recv" /\ pc'[Dg(c)] = "invoke"
                         /\ node[Dg(c)] = "-" /\ node'[Dg(c)] = "agent"
                         /\ threads' = [threads EXCEPT ![t] =
                               [@ EXCEPT !.messages = Append(@, HumanMessage(e.transcript))]]
                    ELSE UNCHANGED <<threads, pc, node>>
          /\ (~InTurn(Dg(c)) /\ InTurn(Dg(c))') =>
                (heard'[c] = heard[c] + 1 /\ Triggers(result'[c]))
          /\ HumanMessages(threads'[call_sid(c)]) # HumanMessages(threads[call_sid(c)])
                => heard'[c] = heard[c] + 1
      ]_vars

\* two messages were read, a final one that started a turn and then a partial
\* one that did not: one user message in the history
C10_Witness ==
    /\ heard[1] = 2
    /\ result[1].is_final /\ ~result[1].speech_final /\ result[1].transcript # <<>>
    /\ HumanMessages(threads[call_sid(1)]) = 1
    /\ pc[Dg(1)] = "recv"

\* ------------------------------------------------------------------------
\* Properties of speech synthesis, quantities, routing and failures
\* ------------------------------------------------------------------------
\* C11 as claimed: generate_tts is never given a text that is empty or all
\* blanks, and no media of such a text is written to the Twilio socket.
C11_NoEmptySynthesis ==
    \A c \in Conns :
        /\ \A k \in 1..Len(synth[c]) : ~IsBlank(synth[c][k])
        /\ \A k \in 1..Len(sent[c]) : ~IsBlank(sent[c][k].text)

\* C12 as claimed: every cart line has a quantity of at least 1, and no step
\* lowers a thread's order_total.
C12_QuantitiesPositive ==
    [][\A t \in ThreadIds :
          /\ \A i \in 1..Len(threads'[t].cart) : threads'[t].cart[i].quantity >= 1
          /\ threads'[t].order_total >= threads[t].order_total
      ]_vars

\* a step in which the engine's reply to runner r's invoke is routed
ReplyStep(r) == node[r] = "agent" /\ node'[r] \in {"tools", "end"}

\* C13: when the engine has replied, the graph goes to execute_tools iff the
\* reply, now the last message of the history, holds at least one tool call,
\* and the invoke ends iff it holds none; an invoke ends in no other step; and
\* execute_tools is always followed by the agent node.
C13_RoutesOnToolCalls ==
    [][\A r \in Runners :
          /\ ReplyStep(r) =>
                LET m == threads'[thread_id(r)].messages
                    last == m[Len(m)]
                IN  /\ Len(m) = Len(threads[thread_id(r)].messages) + 1
                    /\ last.type = "ai"
                    /\ node'[r] = "tools" <=> last.tool_calls # <<>>
                    /\ node'[r] = "end" <=> last.tool_calls = <<>>
          /\ (node[r] # "end" /\ node'[r] = "end") => ReplyStep(r)
          /\ (node[r] # "tools" /\ node'[r] = "tools") => ReplyStep(r)
          /\ (node[r] = "tools" /\ node'[r] # "tools") => node'[r] = "agent"
      ]_vars

\* a turn of run_cli has ended after two rounds of execute_tools
C13_Witness ==
    LET m == threads[session_id].messages
    IN  /\ node[Cli] = "end"
        /\ Len(m) = 7
        /\ m[3].type = "ai" /\ m[3].tool_calls # <<>>
        /\ m[4].type = "tool"
        /\ m[5].type = "ai" /\ m[5].tool_calls # <<>>
        /\ m[6].type = "tool"
        /\ m[7].type = "ai" /\ m[7].tool_calls = <<>>

\* the adds with a known identifier among the calls of a reply, in order
RECURSIVE KnownAdds(_, _)
KnownAdds(im, calls) ==
    IF calls = <<>> THEN <<>>
    ELSE (IF IsAdd(Head(calls)) /\ Head(calls).item \in KnownIds(im)
          THEN <<Head(calls)>> ELSE <<>>) \o KnownAdds(im, Tail(calls))

\* the identifier a cart line holds
LineId(im, line) == IF im = "main" THEN line.item_id ELSE line.variant_id

\* the kinds of tool message that answer a call
AnswersOf(call) ==
    IF IsHandoff(call) THEN {"handoff"}
    ELSE IF IsAdd(call) THEN {"added", "error"}
    ELSE {"available", "none"}

\* C14: execute_tools runs every call of the reply in one step, before the
\* agent node runs again: it appends one tool message per call, the i-th
\* carrying the i-th call's id and answering its kind of call; the cart grows
\* by the lines of the known adds in the order of the calls; and the i-th
\* "added" message reports the total after the first i calls.
C14_AllCallsInOrder ==
    [][\A r \in Runners : ExecStep(r) =>
          LET t == thread_id(r)
              calls == PendingCalls(r)
              pre == threads[t]
              post == threads'[t]
              n == Len(pre.messages)
              adds == KnownAdds(impl, calls)
          IN  /\ Len(post.messages) = n + Len(calls)
              /\ SubSeq(post.messages, 1, n) = pre.messages
              /\ \A i \in 1..Len(calls) :
                    LET answer == post.messages[n + i]
                    IN  /\ answer.type = "tool"
                        /\ answer.tool_call_id = calls[i].id
                        /\ answer.content.kind \in AnswersOf(calls[i])
                        /\ answer.content.kind = "added" =>
                              /\ answer.content.item = calls[i].item
                              /\ answer.content.total = pre.order_total
                                    + KnownAddsValue(impl, SubSeq(calls, 1, i))
              /\ Len(post.cart) = Len(pre.cart) + Len(adds)
              /\ \A j \in 1..Len(adds) :
                    /\ LineId(impl, post.cart[Len(pre.cart) + j]) = adds[j].item
                    /\ post.cart[Len(pre.cart) + j].quantity = adds[j].quantity
      ]_vars

\* a reply of two adds of different items was executed: two lines in the
\* order of the calls, answered in that order
C14_Witness ==
    LET m == threads[session_id].messages
        cart == threads[session_id].cart
    IN  /\ Len(m) = 5 /\ Len(cart) = 2
        /\ Len(m[3].tool_calls) = 2
        /\ m[3].tool_calls[1].item = "coke" /\ m[3].tool_calls[2].item = "cheese_small"
        /\ LineId(impl, cart[1]) = "coke" /\ LineId(impl, cart[2]) = "cheese_small"
        /\ m[4].tool_call_id = <<3, 1>> /\ m[5].tool_call_id = <<3, 2>>
        /\ m[4].content.total = 4 /\ m[5].content.total = 12

\* C15 as claimed: when the engine's call has raised in a runner's invoke, the
\* thread's cart, order_total and requires_handoff are those of the checkpoint
\* the invoke started from.
C15_FailedTurnChangesNothing ==
    \A r \in Runners :
        node[r] = "raised" => OrderOf(threads[thread_id(r)]) = before[r]

\* C16 as claimed: listen_to_deepgram does not return when the ainvoke of a
\* transcript's turn has raised, nor when generate_tts fails while Twilio's
\* stream is still there to be written to: it goes on to its next recv.
C16_FailureAbortsOnlyTheTurn ==
    [][\A c \in Conns :
          (\/ pc[Dg(c)] = "invoke" /\ node[Dg(c)] = "raised"
           \/ pc[Dg(c)] = "tts" /\ twilio[c] # "stopped")
              => pc'[Dg(c)] \notin {"done", "failed"}
      ]_vars

\* the transfer of call c was invoked and raised
TransferFailed(c) == transfers[c] = 1 /\ pc[Dg(c)] = "failed"

\* C17 as claimed: after a transfer that failed, one more media (the apology)
\* is eventually written to the Twilio socket, however many (the greeting and
\* at most one reply per Deepgram message) were written before.
C17_FailedTransferApologizes ==
    \A c \in Conns : \A n \in 0..(MaxDgEvents + 1) :
        (TransferFailed(c) /\ Len(sent[c]) = n) ~> (Len(sent[c]) > n)

\* the transfer of call c was invoked and returned: listen_to_deepgram broke
Transferred(c) == transfers[c] = 1 /\ pc[Dg(c)] = "done"

\* C18 as claimed: once the transfer has returned, listen_to_twilio forwards
\* no more audio to Deepgram, and eventually it has returned and the Deepgram
\* connection is closed, whether or not Twilio sends "stop".
C18_TransferEndsBothLoops ==
    /\ [][\A c \in Conns : Transferred(c) => audio'[c] = audio[c]]_vars
    /\ \A c \in Conns :
          Transferred(c) ~> (Ended(Tw(c)) /\ deepgram_ws[c] = "closed")

\* loop r awaits the reasoning engine or generate_tts
Awaits(r) == node[r] = "agent" \/ pc[r] = "tts"

\* C19 as claimed: while a loop of a call awaits the reasoning engine or
\* generate_tts, listen_to_twilio of that call stands at its receive_text,
\* ready for the next frame, unless it has already returned.
C19_InboundKeepsReading ==
    \A c \in Conns :
        (\E r \in Loops(c) : Awaits(r)) => (InboundReads(c) \/ Ended(Tw(c)))

\* C20 as claimed: MemorySaver holds nothing for a call before its "start"
\* event, and nothing again once "stop" was read or the transfer has returned.
C20_SessionRemovedAtEnd ==
    \A c \in Conns :
        /\ twilio[c] \in {"new", "connected"} => threads[call_sid(c)] = NoState
        /\ (twilio[c] = "stopped" \/ Transferred(c)) => threads[call_sid(c)] = NoState

\* ------------------------------------------------------------------------
\* Properties of add_to_cart and of the handler's end
\* ------------------------------------------------------------------------
\* C21: for every call of an executed reply that is an add_to_cart with a
\* known identifier and a quantity of at least 1, execute_tools appends one
\* line, after the lines the cart had and after those of the reply's earlier
\* adds, holding the call's identifier, its quantity and the catalog price as
\* unit_price; the lines the cart had are unchanged; the call's tool message
\* reports the total so far, which is the total before the call plus
\* price x quantity; and a reply of one such call alone lengthens the cart by
\* one line and raises order_total by price x quantity, the reported total.
C21_AddAppendsOneLine ==
    [][\A r \in Runners : ExecStep(r) =>
          LET t == thread_id(r)
              calls == PendingCalls(r)
              pre == threads[t]
              post == threads'[t]
              n == Len(pre.messages)
          IN  /\ SubSeq(post.cart, 1, Len(pre.cart)) = pre.cart
              /\ \A i \in 1..Len(calls) :
                    (/\ IsAdd(calls[i])
                     /\ calls[i].item \in KnownIds(impl)
                     /\ calls[i].quantity >= 1) =>
                        LET price == PriceOf(impl, calls[i].item)
                            k == Len(pre.cart)
                                  + KnownAddsCount(impl, SubSeq(calls, 1, i))
                            line == post.cart[k]
                            answer == post.messages[n + i].content
                            earlier == pre.order_total
                                  + KnownAddsValue(impl, SubSeq(calls, 1, i - 1))
                        IN  /\ k <= Len(post.cart)
                            /\ LineId(impl, line) = calls[i].item
                            /\ line.quantity = calls[i].quantity
                            /\ line.unit_price = price
                            /\ line.line_total = price * calls[i].quantity
                            /\ answer.kind = "added"
                            /\ answer.total = earlier + price * calls[i].quantity
                            /\ Len(calls) = 1 =>
                                  /\ post.cart = Append(pre.cart, line)
                                  /\ post.order_total
                                        = pre.order_total + price * calls[i].quantity
                                  /\ answer.total = post.order_total
      ]_vars

\* add_to_cart(coke, 2) was executed on a cart that held a cheese_small line:
\* the coke line is the second, at the catalog price 2, and the total 12 is
\* reported
C21_Witness ==
    LET m == threads[session_id].messages
        cart == threads[session_id].cart
    IN  /\ Len(m) = 6 /\ Len(cart) = 2
        /\ LineId(impl, cart[1]) = "cheese_small" /\ cart[1].quantity = 1
        /\ LineId(impl, cart[2]) = "coke" /\ cart[2].quantity = 2
        /\ cart[2].unit_price = 2 /\ cart[2].line_total = 4
        /\ m[6].content.kind = "added" /\ m[6].content.total = 12
        /\ threads[session_id].order_total = 12

\* C22: the Deepgram connection is closed by the handler only when both
\* loops have returned, and the handler has finished only then; while the
\* handler awaits the gather the connection is open, or dropped by Deepgram
\* itself, never closed.
C22_ClosedAfterBothLoops ==
    \A c \in Conns :
        /\ deepgram_ws[c] = "closed" => (Ended(Tw(c)) /\ Ended(Dg(c)))
        /\ handler[c] = "finished" =>
              (Ended(Tw(c)) /\ Ended(Dg(c)) /\ deepgram_ws[c] = "closed")
        /\ handler[c] = "gather" => deepgram_ws[c] \in {"open", "dropped"}

\* the handler has finished and closed the connection, listen_to_deepgram
\* having returned after a transfer and listen_to_twilio, later, on "stop"
C22_Witness ==
    /\ handler[1] = "finished"
    /\ deepgram_ws[1] = "closed"
    /\ Transferred(1)
    /\ pc[Tw(1)] = "done" /\ twilio[1] = "stopped"

====
